---- MODULE Spec2Model ----
(***************************************************************************)
(* Model of the two pagination engines of get_add_distributors:            *)
(*   main.py   the sequential engine (requests, one page per iteration)    *)
(*   async.py  the task-based engine (aiohttp, discovery loop + tasks)     *)
(* Both engines run against the same static mock server `pages`; they      *)
(* share nothing else.  A fetch either returns the served response or      *)
(* fails with a transport fault (connection error / timeout).              *)
(***************************************************************************)
EXTENDS Integers, Sequences, FiniteSets, TLC

\* ---------------------------------------------------------------- bounds
\* Number of page indices the mock server serves; no fetch is issued for
\* an index >= MaxPages (the engines' counters are capped there).
MaxPages == 3

\* Sizes of the tables on which classification and extraction are checked
\* on their own: rows per table, header cells and data cells per row, data
\* cells outside any row.
MaxRows == 2

MaxHeaders == 2

MaxCells == 2

MaxStray == 1

PageIndexes == 0 .. (MaxPages - 1)

\* ------------------------------------------------------- the served pages
\* A body is the parsed shape of the markup:
\*   div    the <div class="info"> container is present
\*   table  the container holds a <table>
\*   stray  number of <td> cells of the table that are not inside any <tr>
\*   rows   the <tr> rows of the table, each with its <th> and <td> texts
Row(th, td) == [th |-> th, td |-> td]

Body(div, table, stray, rows) ==
    [div |-> div, table |-> table, stray |-> stray, rows |-> rows]

NoContainer == Body(FALSE, FALSE, 0, <<>>)

EmptyContainer == Body(TRUE, FALSE, 0, <<>>)

HeaderOnly == Body(TRUE, TRUE, 0, << Row(<<"ORGNAME", "STATECD">>, <<>>) >>)

AcmePage ==
    Body(TRUE, TRUE, 0, << Row(<<"ORGNAME", "STATECD">>, <<>>),
                           Row(<<>>, <<"Acme Pharma", "CA">>) >>)

\* second row is short (one cell for two headers), third row has no cell;
\* the cell text holds the byte 0xE9
BetaPage ==
    Body(TRUE, TRUE, 0, << Row(<<"ORGNAME", "STATECD">>, <<>>),
                           Row(<<>>, <<"Caf<E9>">>),
                           Row(<<>>, <<>>) >>)

\* data cells directly under <table>, no <tr> at all
StrayPage == Body(TRUE, TRUE, 1, <<>>)

\* A served response: status line, charset of the Content-Type header
\* ("none" when the header names no charset) and body.
Response(status, charset, body) ==
    [status |-> status, charset |-> charset, body |-> body]

MockResponses ==
    { Response(200, "none", AcmePage),
      Response(200, "utf-8", BetaPage),
      Response(200, "none", StrayPage),
      Response(200, "none", NoContainer),
      Response(200, "none", EmptyContainer),
      Response(200, "none", HeaderOnly),
      Response(500, "none", NoContainer),
      Response(500, "none", AcmePage) }

\* ------------------------------------------------------------- decoding
\* Decoding of a text under an encoding.  Only the byte 0xE9 distinguishes
\* the encodings: ISO-8859-1 maps it to U+00E9, UTF-8 (errors replaced)
\* maps the lone byte to U+FFFD.
DecodeText(encoding, raw) ==
    IF raw = "Caf<E9>"
    THEN IF encoding = "ISO-8859-1" THEN "Caf<U+00E9>" ELSE "Caf<U+FFFD>"
    ELSE raw

DecodeSeq(encoding, s) == [i \in DOMAIN s |-> DecodeText(encoding, s[i])]

DecodeBody(encoding, body) ==
    [body EXCEPT !.rows =
        [i \in DOMAIN body.rows |->
            Row(DecodeSeq(encoding, body.rows[i].th),
                DecodeSeq(encoding, body.rows[i].td))]]

\* requests: response.text decodes with the charset of the header, and
\* with ISO-8859-1 when a text/* header names none.
RequestsText(resp) ==
    DecodeBody(IF resp.charset = "none" THEN "ISO-8859-1" ELSE resp.charset,
               resp.body)

\* aiohttp: response.text(encoding='ISO-8859-1')
fetch_page(resp) == DecodeBody("ISO-8859-1", resp.body)

\* ------------------------------------------------- classify and extract
\* only the rows after the header row are searched for data cells
ClassifyDataRows(soup) ==
    IF soup.div /\ soup.table
       /\ \E i \in DOMAIN soup.rows : i > 1 /\ soup.rows[i].td # <<>>
    THEN "Continue"
    ELSE "Stop"

\* div_info and div_info.find('table') and div_info.find('table').find_all('td')
Classify(soup) ==
    IF soup.div /\ soup.table
       /\ (soup.stray > 0 \/ \E i \in DOMAIN soup.rows : soup.rows[i].td # <<>>)
    THEN "Continue"
    ELSE "Stop"

Min(a, b) == IF a < b THEN a ELSE b

\* zip(headers, row_data)
Zip(headers, row_data) ==
    [i \in 1 .. Min(Len(headers), Len(row_data)) |-> <<headers[i], row_data[i]>>]

\* d[k] = v on an insertion-ordered dict, kept as a sequence of <<key, value>>
DictPut(d, k, v) ==
    IF \E i \in DOMAIN d : d[i][1] = k
    THEN [i \in DOMAIN d |-> IF d[i][1] = k THEN <<k, v>> ELSE d[i]]
    ELSE Append(d, <<k, v>>)

RECURSIVE Dict(_)
\* dict(pairs)
Dict(pairs) ==
    IF pairs = <<>>
    THEN <<>>
    ELSE LET n == Len(pairs)
         IN  DictPut(Dict(SubSeq(pairs, 1, n - 1)), pairs[n][1], pairs[n][2])

RECURSIVE TableData(_, _, _)
\* the loop over table.find_all('tr')[1:], from row i on
TableData(headers, rows, i) ==
    IF i > Len(rows)
    THEN <<>>
    ELSE (IF rows[i].td # <<>>
          THEN << Dict(Zip(headers, rows[i].td)) >>
          ELSE <<>>)
         \o TableData(headers, rows, i + 1)

\* process_page: raised is TRUE when table.find('tr') is None and the
\* attribute access on it raises AttributeError.
process_page(soup) ==
    IF soup.div /\ soup.table
    THEN IF soup.rows = <<>>
         THEN [raised |-> TRUE, data |-> <<>>]
         ELSE [raised |-> FALSE,
               data |-> TableData(soup.rows[1].th, soup.rows, 2)]
    ELSE [raised |-> FALSE, data |-> <<>>]


\* ------------------------------------------------------------ the Sink
\* keys of a record in insertion order
Keys(rec) == [i \in DOMAIN rec |-> rec[i][1]]

RECURSIVE Union(_, _)
\* cols followed by the keys of ks not yet in cols, first seen first
Union(cols, ks) ==
    IF ks = <<>>
    THEN cols
    ELSE Union(IF \E i \in DOMAIN cols : cols[i] = ks[1]
               THEN cols ELSE Append(cols, ks[1]),
               Tail(ks))

RECURSIVE Columns(_)
\* the columns of the DataFrame built from the records
Columns(data) ==
    IF data = <<>>
    THEN <<>>
    ELSE LET n == Len(data)
         IN  Union(Columns(SubSeq(data, 1, n - 1)), Keys(data[n]))

\* value of column c in a record, empty when the record lacks it
Cell(rec, c) ==
    IF \E i \in DOMAIN rec : rec[i][1] = c
    THEN rec[CHOOSE i \in DOMAIN rec : rec[i][1] = c][2]
    ELSE ""

\* pd.read_json(json_data).to_csv(..., index=False, header=True)
to_csv(data) ==
    LET cols == Columns(data)
    IN  [header |-> cols,
         rows |-> [r \in DOMAIN data |->
                      [c \in DOMAIN cols |-> Cell(data[r], cols[c])]]]

\* the artifact written by json.dumps + file.write
JsonFile(data) == [file |-> "vwad_list.json", content |-> data]

\* the artifact written by read_json + to_csv
CsvFile(data) == [file |-> "vwad_list.csv", content |-> to_csv(data)]

\* ---------------------------------------------------------------- state
VARIABLES
    pages,            \* the mock server: page index -> served response
    \* main.py
    seq_pc,           \* "loop", "write_json", "write_csv", "return", "exited"
    seq_page,         \* page
    seq_all_data,     \* all_data
    seq_requests,     \* page index -> number of GETs issued for it
    seq_class,        \* page index -> classification made in the loop
    seq_appended,     \* page indices whose records were extended, in order
    seq_state,        \* engine state: Discovering, Done, Failed
    seq_failing,      \* indices reported by "Failed to retrieve page"
    seq_exc,          \* exception raised out of get_add_distributors
    seq_exit,         \* process exit status: <<>> while running, then <<code>>
    seq_sink,         \* artifacts written, in order
    \* async.py
    async_pc,         \* "discover", "gather", "assemble", "write_json", ...
    async_page,       \* page
    async_all_data,   \* all_data
    tasks,            \* tasks: the fetch tasks in creation order
    responses,        \* responses
    async_i,          \* position of the for loop in responses
    async_requests,   \* page index -> number of GETs issued for it
    async_class,      \* page index -> classification made in the discovery loop
    async_appended,   \* page indices whose records were extended, in order
    async_completion, \* task numbers in order of completion
    async_state,      \* engine state: Discovering, Draining, Done
    async_exc,        \* exception raised out of get_add_distributors
    async_exit,       \* process exit status: <<>> while running, then <<code>>
    async_sink,       \* artifacts written, in order
    \* classification and process_page applied to one parsed page
    unit_pc,          \* "idle", "parsed", "classified", "processed"
    unit_soup,        \* soup: the parsed page
    unit_class,       \* value of the classification condition
    unit_data         \* outcome of process_page(soup)

\* the parsed page and what was computed from it
unitVars == << unit_pc, unit_soup, unit_class, unit_data >>

serverVars == << pages, unitVars >>

seqVars ==
    << seq_pc, seq_page, seq_all_data, seq_requests, seq_class, seq_appended,
       seq_state, seq_failing, seq_exc, seq_exit, seq_sink >>

asyncVars ==
    << async_pc, async_page, async_all_data, tasks, responses, async_i,
       async_requests, async_class, async_appended, async_completion,
       async_state, async_exc, async_exit, async_sink >>

vars == << pages, seqVars, asyncVars >>

SeqInit ==
    /\ seq_pc = "loop"
    /\ seq_page = 0
    /\ seq_all_data = <<>>
    /\ seq_requests = [i \in PageIndexes |-> 0]
    /\ seq_class = [i \in PageIndexes |-> "none"]
    /\ seq_appended = <<>>
    /\ seq_state = "Discovering"
    /\ seq_failing = <<>>
    /\ seq_exc = "none"
    /\ seq_exit = <<>>
    /\ seq_sink = <<>>

AsyncInit ==
    /\ async_pc = "discover"
    /\ async_page = 0
    /\ async_all_data = <<>>
    /\ tasks = <<>>
    /\ responses = <<>>
    /\ async_i = 1
    /\ async_requests = [i \in PageIndexes |-> 0]
    /\ async_class = [i \in PageIndexes |-> "none"]
    /\ async_appended = <<>>
    /\ async_completion = <<>>
    /\ async_state = "Discovering"
    /\ async_exc = "none"
    /\ async_exit = <<>>
    /\ async_sink = <<>>

\* no page is handed to the extractor on its own
UnitIdle ==
    /\ unit_pc = "idle"
    /\ unit_soup = NoContainer
    /\ unit_class = "none"
    /\ unit_data = [raised |-> FALSE, data |-> <<>>]

Init ==
    /\ pages \in [PageIndexes -> MockResponses]
    /\ SeqInit
    /\ AsyncInit
    /\ UnitIdle

\* ------------------------------------------------- main.py, sequential
\* an exception leaves get_add_distributors and the interpreter exits 1
SeqRaise(exc) ==
    /\ seq_exc' = exc
    /\ seq_pc' = "exited"
    /\ seq_exit' = <<1>>

\* the page's records replace what was accumulated
Overwrite(all_data, page_data) == page_data

\* all_data.extend(page_data)
Extend(all_data, page_data) == all_data \o page_data

\* a step of 2: every second index is skipped
SkipIndex(page) == page + 2

\* page += 1
NextIndex(page) == page + 1

\* the loop goes on to the next index instead of ending
SeqSkipEmpty ==
    /\ seq_page' = seq_page + 1
    /\ UNCHANGED << seq_pc, seq_state >>

\* else: break, on a page without data: the loop ends, the engine is Done
SeqBreak ==
    /\ seq_pc' = "write_json"
    /\ seq_state' = "Done"
    /\ UNCHANGED seq_page

\* one iteration of the while loop whose requests.get returns a response
SeqIteration ==
    /\ seq_pc = "loop"
    /\ seq_page < MaxPages
    /\ seq_requests' = [seq_requests EXCEPT ![seq_page] = @ + 1]
    /\ LET response == pages[seq_page]
           soup == RequestsText(response)
           page_data == process_page(soup)
       IN  IF response.status = 200
           THEN IF Classify(soup) = "Continue"
                THEN /\ seq_class' = [seq_class EXCEPT ![seq_page] = "Continue"]
                     /\ IF page_data.raised
                        THEN /\ SeqRaise("AttributeError")
                             /\ UNCHANGED << seq_page, seq_all_data, seq_appended >>
                        ELSE /\ seq_all_data' = Extend(seq_all_data, page_data.data)
                             /\ seq_appended' = Append(seq_appended, seq_page)
                             /\ seq_page' = NextIndex(seq_page)
                             /\ UNCHANGED << seq_pc, seq_exc, seq_exit >>
                     /\ UNCHANGED << seq_state, seq_failing >>
                ELSE /\ seq_class' = [seq_class EXCEPT ![seq_page] = "Stop"]
                     /\ SeqBreak
                     /\ UNCHANGED << seq_all_data, seq_appended,
                                     seq_failing, seq_exc, seq_exit >>
           ELSE /\ seq_failing' = Append(seq_failing, seq_page)
                /\ seq_state' = "Failed"
                /\ seq_pc' = "write_json"
                /\ UNCHANGED << seq_page, seq_all_data, seq_appended,
                                seq_class, seq_exc, seq_exit >>
    /\ UNCHANGED << seq_sink, serverVars, asyncVars >>

\* requests.get raises (connection error, timeout): nothing catches it
SeqFetchFault ==
    /\ seq_pc = "loop"
    /\ seq_page < MaxPages
    /\ seq_requests' = [seq_requests EXCEPT ![seq_page] = @ + 1]
    /\ SeqRaise("ConnectionError")
    /\ UNCHANGED << seq_page, seq_all_data, seq_class, seq_appended, seq_state,
                    seq_failing, seq_sink, serverVars, asyncVars >>

\* the JSON file is only written when the loop ended on a Stop page
SeqWriteJsonOnDone ==
    /\ seq_pc = "write_json"
    /\ seq_sink' = IF seq_state = "Done"
                   THEN Append(seq_sink, JsonFile(seq_all_data))
                   ELSE seq_sink
    /\ seq_pc' = "write_csv"
    /\ UNCHANGED << seq_page, seq_all_data, seq_requests, seq_class,
                    seq_appended, seq_state, seq_failing, seq_exc, seq_exit,
                    serverVars, asyncVars >>

\* json.dumps(all_data) is written to vwad_list.json
SeqWriteJson ==
    /\ seq_pc = "write_json"
    /\ seq_sink' = Append(seq_sink, JsonFile(seq_all_data))
    /\ seq_pc' = "write_csv"
    /\ UNCHANGED << seq_page, seq_all_data, seq_requests, seq_class,
                    seq_appended, seq_state, seq_failing, seq_exc, seq_exit,
                    serverVars, asyncVars >>

SeqWriteCsv ==
    /\ seq_pc = "write_csv"
    /\ seq_sink' = Append(seq_sink, CsvFile(seq_all_data))
    /\ seq_pc' = "return"
    /\ UNCHANGED << seq_page, seq_all_data, seq_requests, seq_class,
                    seq_appended, seq_state, seq_failing, seq_exc, seq_exit,
                    serverVars, asyncVars >>

\* get_add_distributors returns and the script ends
SeqReturn ==
    /\ seq_pc = "return"
    /\ seq_pc' = "exited"
    /\ seq_exit' = <<0>>
    /\ UNCHANGED << seq_page, seq_all_data, seq_requests, seq_class,
                    seq_appended, seq_state, seq_failing, seq_exc, seq_sink,
                    serverVars, asyncVars >>

SeqNext ==
    \/ SeqIteration
    \/ SeqFetchFault
    \/ SeqWriteJson
    \/ SeqWriteCsv
    \/ SeqReturn

\* ------------------------------------------------ async.py, task-based
\* an exception leaves get_add_distributors; asyncio.run re-raises it and
\* the interpreter exits 1
AsyncRaise(exc) ==
    /\ async_exc' = exc
    /\ async_pc' = "exited"
    /\ async_exit' = <<1>>

\* a task that fetches a stale url: always the first page
NewTaskStale(page) == [page |-> 0, st |-> "scheduled", result |-> <<>>]

\* asyncio.create_task(fetch_page(session, current_url))
NewTask(page) == [page |-> page, st |-> "scheduled", result |-> <<>>]

\* one iteration of the discovery loop whose awaited fetch_page returns
AsyncDiscover ==
    /\ async_pc = "discover"
    /\ async_page < MaxPages
    /\ async_requests' = [async_requests EXCEPT ![async_page] = @ + 1]
    /\ LET page_content == fetch_page(pages[async_page])
       IN  IF Classify(page_content) = "Stop"
           THEN /\ async_class' = [async_class EXCEPT ![async_page] = "Stop"]
                /\ async_pc' = "gather"
                /\ async_state' = "Draining"
                /\ UNCHANGED << tasks, async_page >>
           ELSE /\ async_class' = [async_class EXCEPT ![async_page] = "Continue"]
                /\ tasks' = Append(tasks, NewTask(async_page))
                /\ async_page' = async_page + 1
                /\ UNCHANGED << async_pc, async_state >>
    /\ UNCHANGED << async_all_data, responses, async_i, async_appended,
                    async_completion, async_exc, async_exit, async_sink,
                    serverVars, seqVars >>

\* the awaited fetch_page of the discovery loop raises aiohttp.ClientError
AsyncFetchFault ==
    /\ async_pc = "discover"
    /\ async_page < MaxPages
    /\ async_requests' = [async_requests EXCEPT ![async_page] = @ + 1]
    /\ AsyncRaise("ClientError")
    /\ UNCHANGED << async_page, async_all_data, tasks, responses, async_i,
                    async_class, async_appended, async_completion,
                    async_state, async_sink, serverVars, seqVars >>

\* the event loop runs tasks while get_add_distributors is suspended in an
\* await (the discovery fetch or the gather)
TasksRun == async_pc \in {"discover", "gather"}

\* task t enters fetch_page and issues its GET
TaskStart(t) ==
    /\ TasksRun
    /\ t \in DOMAIN tasks
    /\ tasks[t].st = "scheduled"
    /\ tasks' = [tasks EXCEPT ![t].st = "inflight"]
    /\ async_requests' = [async_requests EXCEPT ![tasks[t].page] = @ + 1]
    /\ UNCHANGED << async_pc, async_page, async_all_data, responses, async_i,
                    async_class, async_appended, async_completion,
                    async_state, async_exc, async_exit, async_sink,
                    serverVars, seqVars >>

\* task t receives its response and returns the decoded text (kept with
\* the index of the page it was fetched from)
TaskFinish(t) ==
    /\ TasksRun
    /\ t \in DOMAIN tasks
    /\ tasks[t].st = "inflight"
    /\ tasks' = [tasks EXCEPT ![t].st = "done",
                              ![t].result = << [page |-> tasks[t].page,
                                               text |-> fetch_page(pages[tasks[t].page])] >>]
    /\ async_completion' = Append(async_completion, t)
    /\ UNCHANGED << async_pc, async_page, async_all_data, responses, async_i,
                    async_requests, async_class, async_appended,
                    async_state, async_exc, async_exit, async_sink,
                    serverVars, seqVars >>

\* the GET of task t raises aiohttp.ClientError: the task ends failed
TaskFault(t) ==
    /\ TasksRun
    /\ t \in DOMAIN tasks
    /\ tasks[t].st = "inflight"
    /\ tasks' = [tasks EXCEPT ![t].st = "failed"]
    /\ UNCHANGED << async_pc, async_page, async_all_data, responses, async_i,
                    async_requests, async_class, async_appended,
                    async_completion, async_state, async_exc, async_exit,
                    async_sink, serverVars, seqVars >>

\* results in the order in which the tasks completed
GatherAsCompleted(ts, completion) ==
    [t \in DOMAIN completion |-> ts[completion[t]].result[1]]

\* the value of asyncio.gather(*tasks): the results in the order of tasks
GatherResults(ts, completion) == [t \in DOMAIN ts |-> ts[t].result[1]]

\* responses = await asyncio.gather(*tasks), every task having returned
AsyncGather ==
    /\ async_pc = "gather"
    /\ \A t \in DOMAIN tasks : tasks[t].st = "done"
    /\ responses' = GatherResults(tasks, async_completion)
    /\ async_i' = 1
    /\ IF tasks = <<>>
       THEN async_pc' = "write_json" /\ async_state' = "Done"
       ELSE async_pc' = "assemble" /\ UNCHANGED async_state
    /\ UNCHANGED << async_page, async_all_data, tasks, async_requests,
                    async_class, async_appended, async_completion, async_exc,
                    async_exit, async_sink, serverVars, seqVars >>

\* await asyncio.gather(*tasks) re-raises the exception of a failed task
AsyncGatherRaise ==
    /\ async_pc = "gather"
    /\ \E t \in DOMAIN tasks : tasks[t].st = "failed"
    /\ AsyncRaise("ClientError")
    /\ UNCHANGED << async_page, async_all_data, tasks, responses, async_i,
                    async_requests, async_class, async_appended,
                    async_completion, async_state, async_sink,
                    serverVars, seqVars >>

\* one iteration of the for loop over responses
AsyncAssemble ==
    /\ async_pc = "assemble"
    /\ async_i \in DOMAIN responses
    /\ LET response == responses[async_i]
           soup == response.text
           page_data == process_page(soup)
           last == (async_i = Len(responses))
       IN  IF Classify(soup) = "Continue"
           THEN IF page_data.raised
                THEN /\ AsyncRaise("AttributeError")
                     /\ UNCHANGED << async_all_data, async_appended, async_i,
                                     async_state >>
                ELSE /\ async_all_data' = Extend(async_all_data, page_data.data)
                     /\ async_appended' = Append(async_appended, response.page)
                     /\ async_i' = async_i + 1
                     /\ async_pc' = IF last THEN "write_json" ELSE "assemble"
                     /\ async_state' = IF last THEN "Done" ELSE async_state
                     /\ UNCHANGED << async_exc, async_exit >>
           ELSE /\ async_pc' = "write_json"
                /\ async_state' = "Done"
                /\ UNCHANGED << async_all_data, async_appended, async_i,
                                async_exc, async_exit >>
    /\ UNCHANGED << async_page, tasks, responses, async_requests, async_class,
                    async_completion, async_sink, serverVars, seqVars >>

AsyncWriteJson ==
    /\ async_pc = "write_json"
    /\ async_sink' = Append(async_sink, JsonFile(async_all_data))
    /\ async_pc' = "write_csv"
    /\ UNCHANGED << async_page, async_all_data, tasks, responses, async_i,
                    async_requests, async_class, async_appended,
                    async_completion, async_state, async_exc, async_exit,
                    serverVars, seqVars >>

AsyncWriteCsv ==
    /\ async_pc = "write_csv"
    /\ async_sink' = Append(async_sink, CsvFile(async_all_data))
    /\ async_pc' = "return"
    /\ UNCHANGED << async_page, async_all_data, tasks, responses, async_i,
                    async_requests, async_class, async_appended,
                    async_completion, async_state, async_exc, async_exit,
                    serverVars, seqVars >>

\* get_add_distributors returns, asyncio.run returns and the script ends
AsyncReturn ==
    /\ async_pc = "return"
    /\ async_pc' = "exited"
    /\ async_exit' = <<0>>
    /\ UNCHANGED << async_page, async_all_data, tasks, responses, async_i,
                    async_requests, async_class, async_appended,
                    async_completion, async_state, async_exc, async_sink,
                    serverVars, seqVars >>

AsyncNext ==
    \/ AsyncDiscover
    \/ AsyncFetchFault
    \/ \E t \in 1 .. MaxPages : TaskStart(t)
    \/ \E t \in 1 .. MaxPages : TaskFinish(t)
    \/ \E t \in 1 .. MaxPages : TaskFault(t)
    \/ AsyncGather
    \/ AsyncGatherRaise
    \/ AsyncAssemble
    \/ AsyncWriteJson
    \/ AsyncWriteCsv
    \/ AsyncReturn

Next == SeqNext \/ AsyncNext

Spec == Init /\ [][Next]_vars

\* ------------------------------------------- runs in which fetches return
\* Every fetch returns a response (no transport fault), the interpreter
\* keeps running the script and the event loop keeps running every task.
SeqLive == SeqIteration \/ SeqWriteJson \/ SeqWriteCsv \/ SeqReturn

AsyncLive ==
    \/ AsyncDiscover
    \/ AsyncGather
    \/ AsyncAssemble
    \/ AsyncWriteJson
    \/ AsyncWriteCsv
    \/ AsyncReturn

TasksLive ==
    \/ \E t \in 1 .. MaxPages : TaskStart(t)
    \/ \E t \in 1 .. MaxPages : TaskFinish(t)

LiveNext == SeqLive \/ AsyncLive \/ TasksLive

Fairness ==
    /\ WF_vars(SeqLive)
    /\ WF_vars(AsyncLive)
    /\ \A t \in 1 .. MaxPages : WF_vars(TaskStart(t)) /\ WF_vars(TaskFinish(t))

LiveSpec == Init /\ [][LiveNext]_vars /\ Fairness

\* ------------------------------- classification and extraction on a page
\* texts of the header cells and of the data cells, by column
HeaderTexts == << "ORGNAME", "STATECD", "CITY", "ZIP" >>

CellTexts == << "Acme Pharma", "CA", "Fresno", "93650" >>

\* a <tr> with its first nth header cells and its first ntd data cells
RowOf(nth, ntd) == Row(SubSeq(HeaderTexts, 1, nth), SubSeq(CellTexts, 1, ntd))

RowSet == { RowOf(nth, ntd) : nth \in 0 .. MaxHeaders, ntd \in 0 .. MaxCells }

RowSeqs == UNION { [1 .. n -> RowSet] : n \in 0 .. MaxRows }

\* the parsed pages: no container, a container without a table, and a
\* container with a table of any rows and any number of stray cells
Soups ==
    { NoContainer, EmptyContainer }
    \cup { Body(TRUE, TRUE, stray, rows) : stray \in 0 .. MaxStray, rows \in RowSeqs }

UnitInit ==
    /\ pages = [i \in PageIndexes |-> Response(200, "none", NoContainer)]
    /\ SeqInit
    /\ AsyncInit
    /\ unit_pc = "parsed"
    /\ unit_soup \in Soups
    /\ unit_class = "none"
    /\ unit_data = [raised |-> FALSE, data |-> <<>>]

\* the condition of the if statement is evaluated on the parsed page
UnitClassify ==
    /\ unit_pc = "parsed"
    /\ unit_class' = Classify(unit_soup)
    /\ unit_pc' = "classified"
    /\ UNCHANGED << unit_soup, unit_data, pages, seqVars, asyncVars >>

\* process_page(soup) is called on the parsed page
UnitProcess ==
    /\ unit_pc = "classified"
    /\ unit_data' = process_page(unit_soup)
    /\ unit_pc' = "processed"
    /\ UNCHANGED << unit_soup, unit_class, pages, seqVars, asyncVars >>

UnitNext == UnitClassify \/ UnitProcess

UnitSpec == UnitInit /\ [][UnitNext]_vars

\* =============================================================== claims
LoopEnded(pc) == pc \in {"write_json", "write_csv", "return", "exited"}

\* the engine left its loops without an exception: its ResultSet is final
SeqFinished == LoopEnded(seq_pc) /\ seq_exc = "none"

AsyncFinished == LoopEnded(async_pc) /\ async_exc = "none"

\* the records the extractor of each engine yields for served page j
SeqRecords(j) == process_page(RequestsText(pages[j])).data

AsyncRecords(j) == process_page(fetch_page(pages[j])).data

RECURSIVE SeqConcatOver(_)
SeqConcatOver(idxs) ==
    IF idxs = <<>>
    THEN <<>>
    ELSE SeqConcatOver(SubSeq(idxs, 1, Len(idxs) - 1))
         \o SeqRecords(idxs[Len(idxs)])

RECURSIVE AsyncConcatOver(_)
AsyncConcatOver(idxs) ==
    IF idxs = <<>>
    THEN <<>>
    ELSE AsyncConcatOver(SubSeq(idxs, 1, Len(idxs) - 1))
         \o AsyncRecords(idxs[Len(idxs)])

\* the indices 0 .. n-1 in ascending order
Ascending(n) == [i \in 1 .. n |-> i - 1]

\* records of pages 0 .. n-1, page-ascending then row-ascending
SeqConcat(n) == SeqConcatOver(Ascending(n))

AsyncConcat(n) == AsyncConcatOver(Ascending(n))

\* every fetch of pages 0 .. k answers with a success status
AllSucceed(k) == \A j \in 0 .. k : pages[j].status = 200

\* the first served page that classifies Stop is page k
SeqFirstStop(k) ==
    /\ Classify(RequestsText(pages[k])) = "Stop"
    /\ \A j \in 0 .. (k - 1) : Classify(RequestsText(pages[j])) = "Continue"

AsyncFirstStop(k) ==
    /\ Classify(fetch_page(pages[k])) = "Stop"
    /\ \A j \in 0 .. (k - 1) : Classify(fetch_page(pages[j])) = "Continue"

\* C1: when all fetches succeed and the first Stop page is at index k, the
\* ResultSet an engine holds once it has finished is exactly the records of
\* pages 0 .. k-1 in page-then-row order and the engine is in Done; for
\* k = 0 the ResultSet is empty and no error is raised.  Both engines.
C1_ExactPages ==
    \A k \in PageIndexes :
        AllSucceed(k) =>
            /\ (SeqFirstStop(k) /\ SeqFinished) =>
                   (seq_all_data = SeqConcat(k) /\ seq_state = "Done")
            /\ (AsyncFirstStop(k) /\ AsyncFinished) =>
                   (async_all_data = AsyncConcat(k) /\ async_state = "Done")
            /\ (k = 0 /\ SeqFirstStop(0)) =>
                   (seq_exc # "AttributeError" /\ seq_all_data = <<>>)
            /\ (k = 0 /\ AsyncFirstStop(0)) =>
                   (async_exc # "AttributeError" /\ async_all_data = <<>>)

\* both engines returned on a sequence of two data pages and a Stop page
C1_Witness ==
    /\ AllSucceed(2) /\ SeqFirstStop(2) /\ AsyncFirstStop(2)
    /\ seq_exit = <<0>> /\ async_exit = <<0>>
    /\ Len(seq_all_data) = 2 /\ Len(async_all_data) = 2
    /\ seq_all_data[1] # seq_all_data[2]

\* C2: on every fixed page sequence the ResultSet produced by the
\* sequential engine equals the one produced by the task-based engine.
C2_Equivalent ==
    (SeqFinished /\ AsyncFinished) => seq_all_data = async_all_data

\* C3: in the task-based engine records are appended in strictly ascending
\* page order without gaps, whatever the order in which the tasks complete,
\* so the final ResultSet depends on the served pages only.
C3_AscendingAssembly ==
    /\ async_appended = Ascending(Len(async_appended))
    /\ async_all_data = AsyncConcatOver(async_appended)
    /\ \A k \in PageIndexes :
           (AsyncFirstStop(k) /\ AsyncFinished) => async_all_data = AsyncConcat(k)

\* the second task completed before the first one, both pages were appended
C3_Witness ==
    /\ Len(async_completion) >= 2
    /\ async_completion[1] = 2 /\ async_completion[2] = 1
    /\ async_appended = <<0, 1>>
    /\ AsyncRecords(0) # AsyncRecords(1)
    /\ async_exit = <<0>>

\* C4: once a page s has been classified Stop, the ResultSet holds records
\* of pages below s only, also while fetch tasks are still in flight.
C4_StopAuthoritative ==
    /\ seq_all_data = SeqConcatOver(seq_appended)
    /\ async_all_data = AsyncConcatOver(async_appended)
    /\ \A s \in PageIndexes :
           /\ seq_class[s] = "Stop" =>
                  \A i \in DOMAIN seq_appended : seq_appended[i] < s
           /\ async_class[s] = "Stop" =>
                  \A i \in DOMAIN async_appended : async_appended[i] < s

\* page 1 was classified Stop by both engines while the task-based engine
\* still has a fetch in flight; page 2 holds data
C4_Witness ==
    /\ seq_class[1] = "Stop" /\ async_class[1] = "Stop"
    /\ seq_appended = <<0>>
    /\ \E t \in DOMAIN tasks : tasks[t].st = "inflight"
    /\ Classify(fetch_page(pages[2])) = "Continue"

\* C5: page indices are probed 0, 1, 2, ... with step 1, and a fetch for
\* index j > 0 is only issued once page j-1 has been classified Continue.
C5_SequentialDiscovery ==
    [][ /\ seq_page' \in {seq_page, seq_page + 1}
        /\ async_page' \in {async_page, async_page + 1}
        /\ \A j \in PageIndexes :
               /\ seq_requests'[j] > seq_requests[j] =>
                      /\ j = seq_page
                      /\ j = 0 \/ seq_class[j - 1] = "Continue"
               /\ async_requests'[j] > async_requests[j] =>
                      /\ j <= async_page
                      /\ j = 0 \/ async_class[j - 1] = "Continue" ]_vars

\* both engines have probed index 2
C5_Witness ==
    /\ seq_requests[2] = 1 /\ seq_page = 2
    /\ async_requests[2] = 1 /\ async_page = 2

\* C6: in one run every page index is requested from the server at most
\* once (the engine does not fetch a page again to classify or extract it).
C6_FetchOnce ==
    \A j \in PageIndexes : seq_requests[j] <= 1 /\ async_requests[j] <= 1

\* the first served page with a non-success status is page j, and all
\* pages below it are data pages
FirstFailure(j) ==
    /\ pages[j].status # 200
    /\ \A i \in 0 .. (j - 1) :
           /\ pages[i].status = 200
           /\ Classify(fetch_page(pages[i])) = "Continue"

\* C7: when page j answers with a non-success status after data pages
\* 0 .. j-1, the engine ends in Failed with failing index j and the records
\* of pages 0 .. j-1, and never in Done.  Both engines.
C7_FailedOnStatus ==
    \A j \in PageIndexes :
        FirstFailure(j) =>
            /\ seq_state # "Done"
            /\ async_state # "Done"
            /\ SeqFinished =>
                   /\ seq_state = "Failed"
                   /\ seq_failing = << j >>
                   /\ seq_all_data = SeqConcat(j)
            /\ AsyncFinished =>
                   /\ async_state = "Failed"
                   /\ async_all_data = AsyncConcat(j)

\* C8: no fetch fault is raised out of get_add_distributors.
C8_NoFaultEscapes ==
    /\ seq_exc # "ConnectionError"
    /\ async_exc # "ClientError"

\* C9: the exit code is 0 exactly when the engine ended in Done, and
\* non-zero when it ended in Failed.
C9_ExitCode ==
    /\ seq_pc = "exited" =>
           /\ (seq_exit = <<0>>) <=> (seq_state = "Done")
           /\ seq_state = "Failed" => seq_exit # <<0>>
    /\ async_pc = "exited" =>
           /\ (async_exit = <<0>>) <=> (async_state = "Done")
           /\ async_state = "Failed" => async_exit # <<0>>

\* C10: once a page has been classified Stop, no request is issued any
\* more, for any index.
C10_NoFetchAfterStop ==
    [][ \A j \in PageIndexes :
            /\ seq_requests'[j] > seq_requests[j] =>
                   \A s \in PageIndexes : seq_class[s] # "Stop"
            /\ async_requests'[j] > async_requests[j] =>
                   \A s \in PageIndexes : async_class[s] # "Stop" ]_vars

\* fetches of the task-based engine that were issued and whose results
\* get_add_distributors has not taken yet (it takes them when gather returns)
Outstanding ==
    IF async_pc \in {"discover", "gather"}
    THEN Cardinality({t \in DOMAIN tasks : tasks[t].st \in {"inflight", "done"}})
    ELSE 0

\* a window smaller than the number of pages the server has
Window == MaxPages - 1

\* C11: at every moment the number of fetches issued and not yet consumed
\* is at most a fixed window W, however many pages the server has.
C11_BoundedSpeculation == Outstanding <= Window

\* number of <td> cells anywhere in the table: outside rows and in every
\* row, the first one included
RECURSIVE CellsInRows(_)
CellsInRows(rows) ==
    IF rows = <<>> THEN 0 ELSE Len(Head(rows).td) + CellsInRows(Tail(rows))

CellCount(soup) == soup.stray + CellsInRows(soup.rows)

\* C12: a page classifies Continue exactly when it has the container, the
\* container has a table and the table has at least one data cell anywhere
\* (header row included); otherwise Stop, never an error.
C12_Classify ==
    unit_pc \in {"classified", "processed"} =>
        /\ unit_class \in {"Continue", "Stop"}
        /\ unit_class = "Continue" <=>
               (unit_soup.div /\ unit_soup.table /\ CellCount(unit_soup) > 0)

\* a table whose only data cells are in its first row was classified
\* Continue
C12_Witness ==
    /\ unit_pc = "classified"
    /\ unit_class = "Continue"
    /\ unit_soup.stray = 0
    /\ Len(unit_soup.rows) = 2
    /\ unit_soup.rows[1].td # <<>> /\ unit_soup.rows[2].td = <<>>

\* header i paired with cell i, for i below the shorter length
Pairing(headers, cells) ==
    [i \in 1 .. Min(Len(headers), Len(cells)) |-> << headers[i], cells[i] >>]

HasCells(row) == row.td # <<>>

\* one Record per row after the first row that has a data cell, in row order
RowRecords(rows) ==
    IF rows = <<>>
    THEN <<>>
    ELSE LET dataRows == SelectSeq(Tail(rows), HasCells)
         IN  [r \in DOMAIN dataRows |-> Pairing(rows[1].th, dataRows[r].td)]

\* C13: process_page yields one Record per row after the first row that
\* has a data cell, header i paired with cell i below the shorter length
\* (short rows lose trailing columns, rows without cells yield nothing);
\* without the container or without a table it yields the empty sequence.
C13_Extract ==
    unit_pc = "processed" =>
        /\ ~ unit_data.raised
        /\ unit_data.data =
               IF unit_soup.div /\ unit_soup.table
               THEN RowRecords(unit_soup.rows)
               ELSE <<>>

\* the served sequence has a first Stop page and every fetch up to it
\* returns a page
StopServed ==
    \E k \in PageIndexes : AllSucceed(k) /\ SeqFirstStop(k) /\ AsyncFirstStop(k)

\* C14: when the served sequence contains a Stop page and every fetch
\* returns, a fairly scheduled run of either engine reaches Done and keeps
\* its ResultSet from then on: as long as an engine is not in Done it can
\* take a further step, and in Done its ResultSet is the records of the
\* pages below the Stop page.
C14_Terminates ==
    StopServed =>
        /\ seq_state = "Done" \/ ENABLED SeqLive
        /\ async_state = "Done" \/ ENABLED (AsyncLive \/ TasksLive)
        /\ seq_state = "Done" =>
               \A k \in PageIndexes :
                   SeqFirstStop(k) => seq_all_data = SeqConcat(k)
        /\ async_state = "Done" =>
               \A k \in PageIndexes :
                   AsyncFirstStop(k) => async_all_data = AsyncConcat(k)

\* C15: the ResultSet of each engine is always the records of pages
\* 0 .. n-1 for some n not above the next index to probe, and every step
\* leaves it unchanged or appends the complete record list of page n.
C15_PagePrefix ==
    /\ [](/\ Len(seq_appended) <= seq_page
          /\ seq_all_data = SeqConcat(Len(seq_appended))
          /\ Len(async_appended) <= async_page
          /\ async_all_data = AsyncConcat(Len(async_appended)))
    /\ [][ /\ \/ seq_all_data' = seq_all_data
              \/ /\ Len(seq_appended) \in PageIndexes
                 /\ seq_all_data' =
                        seq_all_data \o SeqRecords(Len(seq_appended))
                 /\ seq_appended' = Append(seq_appended, Len(seq_appended))
           /\ \/ async_all_data' = async_all_data
              \/ /\ Len(async_appended) \in PageIndexes
                 /\ async_all_data' =
                        async_all_data \o AsyncRecords(Len(async_appended))
                 /\ async_appended' = Append(async_appended, Len(async_appended))
         ]_vars

\* both engines hold the records of pages 0 and 1, two different pages with
\* records, and the sequential engine is about to probe index 2
C15_Witness ==
    /\ seq_page = 2 /\ seq_pc = "loop"
    /\ seq_all_data = SeqRecords(0) \o SeqRecords(1)
    /\ async_all_data = AsyncRecords(0) \o AsyncRecords(1)
    /\ SeqRecords(0) # <<>> /\ SeqRecords(1) # <<>>
    /\ SeqRecords(0) # SeqRecords(1)

\* C16: every page that classifies Stop makes process_page return the
\* empty sequence.
C16_StopYieldsNothing ==
    (unit_pc = "processed" /\ unit_class = "Stop") =>
        (~ unit_data.raised /\ unit_data.data = <<>>)

\* C17: on every page that classifies Continue process_page returns a
\* sequence of Records and raises no error.
C17_ExtractTotal ==
    (unit_pc = "processed" /\ unit_class = "Continue") => ~ unit_data.raised

\* the artifacts of one run, in the order the code writes them
Artifacts(all_data) == << JsonFile(all_data), CsvFile(all_data) >>

\* C18: nothing is written while an engine is still fetching or
\* assembling; a run that returns has written each of the two artifacts
\* exactly once, both from its final ResultSet; the sequential engine does
\* so also after a reported fetch failure, with the partial ResultSet.
C18_SinkAfterPagination ==
    /\ seq_pc = "loop" => seq_sink = <<>>
    /\ async_pc \in {"discover", "gather", "assemble"} => async_sink = <<>>
    /\ Len(seq_sink) <= 2
    /\ seq_sink = SubSeq(Artifacts(seq_all_data), 1, Len(seq_sink))
    /\ Len(async_sink) <= 2
    /\ async_sink = SubSeq(Artifacts(async_all_data), 1, Len(async_sink))
    /\ seq_exit = <<0>> => seq_sink = Artifacts(seq_all_data)
    /\ async_exit = <<0>> => async_sink = Artifacts(async_all_data)
    /\ (seq_state = "Failed" /\ seq_pc = "exited") =>
           (seq_sink = Artifacts(seq_all_data) /\ seq_all_data = SeqConcat(seq_page))

\* the sequential engine returned after a failure on page 1 and wrote the
\* records of page 0; the task-based engine returned with records written
C18_Witness ==
    /\ seq_state = "Failed" /\ seq_pc = "exited" /\ seq_failing = <<1>>
    /\ seq_all_data # <<>>
    /\ seq_sink = Artifacts(seq_all_data)
    /\ async_exit = <<0>>
    /\ async_all_data # <<>>
    /\ async_sink = Artifacts(async_all_data)

====
